---------------------------- MODULE Spec2Model ----------------------------
(***************************************************************************)
(* Movement synchronisation between one server and its clients, as         *)
(* implemented by the two programs of the repository:                      *)
(*                                                                         *)
(*   variant = "crates": crates/server/src/main.rs + crates/client/src/    *)
(*       main.rs.  The server attaches Player, Transform and MovementInput *)
(*       to the connection entity and integrates the stored input on every *)
(*       tick; the client sends ClientMovementIntent on an unreliable      *)
(*       channel.                                                          *)
(*   variant = "mono":   src/main.rs.  The server spawns a separate Player *)
(*       entity per authorised connection and receives PositionUpdate      *)
(*       reports on an ordered channel; the client moves its own Player.   *)
(*                                                                         *)
(* One client process is modelled in full (its connection entity on the    *)
(* server is `me`); the other connections only connect, send and close.    *)
(*                                                                         *)
(* Spec is the main loop of the two programs.  Two parts of them are      *)
(* followed on their own, from states the main loop reaches: RunSpec, the  *)
(* crates server ticking under one identified client; ShutSpec, the exit   *)
(* paths of the server and client processes.  VisSpec runs the client      *)
(* frame of src/main.rs under any sequence of Player snapshots.            *)
(*                                                                         *)
(* Vectors are pairs of integers.  A position p stands for the world       *)
(* position p / TickHz, and a frame delta n for n / TickHz seconds, so     *)
(* that direction * speed * delta is exact; a normalised vector n stands   *)
(* for n / NormUnit.                                                       *)
(***************************************************************************)
EXTENDS Integers, Sequences, FiniteSets, TLC

\* ------------------------------------------------------------ bounds
MaxConns    == 2      \* connections authorised in one run
MaxMsgs     == 2      \* messages the clients send in one run
MaxTravel   == 2      \* farthest coordinate a tick may reach, in Speed / TickHz
MaxRunTicks == 12     \* ticks of a timed run
MaxSignals  == 2      \* interrupts delivered to the server process
MaxOpen     == 3      \* connections the client's endpoint holds
MaxLate     == 1      \* frames of a timed run that overran 1/TickHz s
MaxExits    == 2      \* AppExit messages written before one frame reads them

ConnIds == 1..MaxOpen                     \* client-side connection ids

NetIds == {1, 2}                          \* transport-level identifiers
Dirs   == {<<0, 0>>, <<1, 0>>, <<1, 1>>}  \* intent / report values
OtherDirs == {<<0, 0>>, <<1, 1>>}          \* values the other clients send
Deltas == {1, 2}                          \* frame deltas, in 1/TickHz seconds
MoveInputs == {<<3, 4>>}                  \* PlayerMovement values (src/main.rs client)

ViewEnts == {1, 2}                        \* replicated Player entities on the client
SnapPositions == {<<0, 0>>, <<300, 0>>, <<300, 600>>}   \* replicated Player.position values

\* ------------------------------------------------- program constants
Speed     == 100      \* apply_movement: ... * time.delta_secs() * 100.0
TickHz    == 64       \* ScheduleRunnerPlugin::run_loop(1.0 / 64.0)
MoveSpeed == 300      \* client_handle_movement: MOVE_SPEED
NormUnit  == 1000     \* a normalised vector's components are kept to 1/1000
NoId      == 0        \* Option::None of a client id / NetworkId
NoEnt     == 0        \* no entity

ZeroVec == <<0, 0>>   \* Vec2::ZERO, Transform::default().translation

VARIABLES
    variant,      \* which program runs: "crates" or "mono"
    nextEnt,      \* the entity id of the next connection entity
    conns,        \* connection entity -> [nid, fresh]
    players,      \* entity carrying Player -> [id, pos, input]
    inbox,        \* received client messages not yet handled: Seq([from, val])
    superseded,   \* history: senders whose message the last frame handled and then replaced
    cstate,       \* the client's connection: "idle", "connected", "closed"
    me,           \* the client's connection entity on the server
    connEvent,    \* client: ConnectionEvent not yet read (its client id)
    clientId,     \* client: MyClientId / connection.client_id()
    replica,      \* client: replicated entity -> [id, pos, srv, added, local, remote]
    inputActive,  \* client: PlayerMovement is being fired
    sent,         \* history: messages the clients have sent so far
    applied,      \* history of a timed run: [input, delta] of each tick
    srvShut,      \* server shutdown: [signals, exits, raised, endpoint, running]
    cliShut,      \* client shutdown: [open, tried, failed, exits, running]
    snaps,        \* history of the snapshots: player id -> [pos, again], the last one
    changed,      \* client: replicated entities whose Player is Changed<Player>
    visuals       \* client: the VisualPlayer entities, Seq([player_id, pos])

vars == <<variant, nextEnt, conns, players, inbox, superseded,
          cstate, me, connEvent, clientId, replica, inputActive,
          sent, applied, srvShut, cliShut, snaps, changed, visuals>>

\* The variables of the programs' main loop.
vars_program == <<variant, nextEnt, conns, players, inbox, superseded,
                  cstate, me, connEvent, clientId, replica, inputActive, sent,
                  changed, visuals>>

\* The variables of the scenarios, which the steps of the programs' main
\* loop leave alone.
sceneVars == <<applied, srvShut, cliShut, snaps>>

clientVars == <<cstate, me, connEvent, clientId, replica, inputActive,
                changed, visuals>>

\* ------------------------------------------------------------ vectors
VAdd(a, b) == <<a[1] + b[1], a[2] + b[2]>>

VScale(a, k) == <<a[1] * k, a[2] * k>>

Sign(x) == IF x > 0 THEN 1 ELSE IF x < 0 THEN -1 ELSE 0

\* Division rounded to the nearest integer, for a positive divisor.
RoundDiv(a, b) == Sign(a) * (((IF a < 0 THEN -a ELSE a) * 2 + b) \div (2 * b))

\* The largest r in lo..hi with r * r <= n, by bisection.
RECURSIVE IsqrtIn(_, _, _)
IsqrtIn(n, lo, hi) ==
    IF lo >= hi THEN lo
    ELSE LET mid == (lo + hi + 1) \div 2
         IN IF mid * mid <= n THEN IsqrtIn(n, mid, hi) ELSE IsqrtIn(n, lo, mid - 1)

\* The integer square root; 46340 is the largest root whose square a
\* 32-bit integer holds.
Isqrt(n) == IsqrtIn(n, 0, IF n < 46340 THEN n ELSE 46340)

\* Vec2::normalize_or_zero: the vector divided by its length, or Vec2::ZERO
\* when the length is zero.  The result is in 1/NormUnit: the length is
\* taken in 1/NormUnit first, and each component is rounded to the nearest
\* 1/NormUnit.
NormalizeOrZero(v) ==
    LET len == Isqrt((v[1] * v[1] + v[2] * v[2]) * NormUnit * NormUnit)
    IN IF len = 0 THEN ZeroVec
       ELSE <<RoundDiv(v[1] * NormUnit * NormUnit, len),
              RoundDiv(v[2] * NormUnit * NormUnit, len)>>

Restrict(f, S) == [x \in S |-> f[x]]

\* ------------------------------------------------------------- server
\* Mutant: the intent is added to the stored input.
OnClientPositionSummed(pl, msg) ==
    IF msg.from # NoEnt /\ msg.from \in DOMAIN pl
    THEN [pl EXCEPT ![msg.from].input = VAdd(@, msg.val)]
    ELSE pl

\* Mutant: an intent of a sender without MovementInput creates one.
OnClientPositionUpsert(pl, msg) ==
    IF msg.from # NoEnt /\ msg.from \in DOMAIN pl
    THEN [pl EXCEPT ![msg.from].input = msg.val]
    ELSE pl @@ (msg.from :> [id |-> NoId, pos |-> ZeroVec, input |-> msg.val])

\* Mutant: the intent is written to every Player's input.
OnClientPositionAll(pl, msg) ==
    IF msg.from # NoEnt /\ msg.from \in DOMAIN pl
    THEN [e \in DOMAIN pl |-> [pl[e] EXCEPT !.input = msg.val]]
    ELSE pl

\* crates/server on_client_position: overwrite the sender's MovementInput.
OnClientPosition(pl, msg) ==
    IF msg.from # NoEnt /\ msg.from \in DOMAIN pl
    THEN [pl EXCEPT ![msg.from].input = msg.val]
    ELSE pl

\* src/main.rs server_handle_position_updates: the Player is looked up on
\* the client's connection entity.
ServerHandlePositionUpdates(pl, cn, msg) ==
    IF msg.from = NoEnt THEN pl
    ELSE IF msg.from \in DOMAIN cn
         THEN IF msg.from \in DOMAIN pl
              THEN [pl EXCEPT ![msg.from].pos = msg.val]
              ELSE pl
         ELSE pl

\* The observers run once per received message, in the order received.
RECURSIVE Drain(_, _, _, _)
Drain(v, pl, cn, box) ==
    IF box = <<>> THEN pl
    ELSE Drain(v,
               IF v = "crates" THEN OnClientPosition(pl, Head(box))
               ELSE ServerHandlePositionUpdates(pl, cn, Head(box)),
               cn, Tail(box))

\* Mutant: the speed factor is left out.
ApplyMovementNoSpeed(pl, dt) ==
    [e \in DOMAIN pl |->
        [pl[e] EXCEPT !.pos = VAdd(@, VScale(pl[e].input, dt))]]

\* Mutant: the movement is applied twice in a tick.
ApplyMovementTwice(pl, dt) ==
    [e \in DOMAIN pl |->
        [pl[e] EXCEPT !.pos = VAdd(@, VScale(pl[e].input, 2 * dt * Speed))]]

\* crates/server apply_movement.
ApplyMovement(pl, dt) ==
    [e \in DOMAIN pl |->
        [pl[e] EXCEPT !.pos = VAdd(@, VScale(pl[e].input, dt * Speed))]]

\* Mutant: a new connection without NetworkId is taken as well.
NewlyAuthorizedAny(cn) == {e \in DOMAIN cn : cn[e].fresh}

\* crates/server read_connected: Added<AuthorizedClient> entities that have a
\* NetworkId get Player, Transform::default() and MovementInput::default().
NewlyAuthorized(cn) == {e \in DOMAIN cn : cn[e].fresh /\ cn[e].nid # NoId}

\* Mutant: the new Player does not start at the origin.
ReadConnectedOffset(pl, cn) ==
    [e \in DOMAIN pl \cup NewlyAuthorized(cn) |->
        IF e \in NewlyAuthorized(cn)
        THEN [id |-> cn[e].nid, pos |-> <<1, 0>>, input |-> ZeroVec]
        ELSE pl[e]]

ReadConnected(pl, cn) ==
    [e \in DOMAIN pl \cup NewlyAuthorized(cn) |->
        IF e \in NewlyAuthorized(cn)
        THEN [id |-> cn[e].nid, pos |-> ZeroVec, input |-> ZeroVec]
        ELSE pl[e]]

SeenConnected(cn) == [e \in DOMAIN cn |-> [cn[e] EXCEPT !.fresh = FALSE]]

\* src/main.rs new_client: spawn a separate Player entity.
NewClient(pl, nid, ent) ==
    IF nid # NoId
    THEN pl @@ (ent :> [id |-> nid, pos |-> ZeroVec, input |-> ZeroVec])
    ELSE pl

\* The senders with two messages of different values in one batch.
Supersedes(box) ==
    {box[i].from : i \in {k \in 1..Len(box) :
        \E j \in 1..Len(box) :
            k < j /\ box[k].from = box[j].from /\ box[k].val # box[j].val}}

\* Entity ids are opaque: connection entities are 1, 2, ... and the entity
\* that commands.spawn allocates while connection entity e is handled is -e.
SpawnedFor(e) == 0 - e

\* The model stops a run before a coordinate leaves the range it covers.
Abs(x) == IF x < 0 THEN 0 - x ELSE x

InRange(pl) ==
    \A e \in DOMAIN pl :
        Abs(pl[e].pos[1]) <= MaxTravel * Speed /\ Abs(pl[e].pos[2]) <= MaxTravel * Speed

ActiveIds == {conns[e].nid : e \in DOMAIN conns} \ {NoId}

\* The despawn of a connection entity takes its components with it.
Despawn(pl, e) == Restrict(pl, DOMAIN pl \ {e})

\* The server process as setup_server leaves it: the endpoint listens, no
\* interrupt is waiting in the channel of main, no AppExit is written.
ServerUp ==
    [signals |-> 0, exits |-> 0, raised |-> FALSE, endpoint |-> "open", running |-> TRUE]

\* The client process holding the connections `open`; tried counts the
\* close_connection calls per connection, failed holds those that erred.
ClientUp(open) ==
    [open |-> open, tried |-> [c \in ConnIds |-> 0], failed |-> {},
     exits |-> 0, running |-> TRUE]

\* The programs after Startup, before any connection.
ProgramStart ==
    /\ nextEnt = 1
    /\ conns = <<>>
    /\ players = <<>>
    /\ inbox = <<>>
    /\ superseded = {}
    /\ cstate = "idle"
    /\ me = NoEnt
    /\ connEvent = NoId
    /\ clientId = NoId
    /\ replica = <<>>
    /\ inputActive = FALSE
    /\ sent = 0
    /\ changed = {}
    /\ visuals = <<>>

Init ==
    /\ variant \in {"crates", "mono"}
    /\ ProgramStart
    /\ applied = <<>>
    /\ snaps = <<>>
    /\ srvShut = ServerUp
    /\ cliShut = ClientUp({})

\* A connection is authorised: the backend spawns its entity.  isMe: it is
\* the modelled client's connection.
Authorize(nid, isMe) ==
    /\ nid \notin ActiveIds
    /\ nextEnt <= MaxConns
    /\ isMe => cstate = "idle" /\ nid # NoId
    /\ conns' = conns @@ (nextEnt :> [nid |-> nid, fresh |-> (variant = "crates")])
    /\ players' = IF variant = "mono"
                  THEN NewClient(players, nid, SpawnedFor(nextEnt))
                  ELSE players
    /\ nextEnt' = nextEnt + 1
    /\ IF isMe
       THEN /\ cstate' = "connected"
            /\ me' = nextEnt
            /\ IF variant = "crates"
               THEN connEvent' = nid /\ clientId' = clientId
               ELSE connEvent' = connEvent /\ clientId' = nid
       ELSE UNCHANGED <<cstate, me, connEvent, clientId>>
    /\ UNCHANGED <<sceneVars, variant, inbox, superseded, replica, inputActive, sent,
                   changed, visuals>>

\* The connection-closed notification: the backend despawns the connection
\* entity.  src/main.rs handle_client_disconnections only logs.
Close(e) ==
    /\ e \in DOMAIN conns
    /\ conns' = Restrict(conns, DOMAIN conns \ {e})
    /\ players' = IF variant = "crates" THEN Despawn(players, e) ELSE players
    /\ cstate' = IF e = me THEN "closed" ELSE cstate
    /\ UNCHANGED <<sceneVars, variant, nextEnt, inbox, superseded,
                   me, connEvent, clientId, replica, inputActive, sent,
                   changed, visuals>>

\* Mutant: the positions are integrated before the received intents are
\* written.
ServerFrameMoveFirst ==
    /\ \E dt \in Deltas :
        /\ players' =
             IF variant = "crates"
             THEN ReadConnected(Drain(variant, ApplyMovement(players, dt), conns, inbox), conns)
             ELSE Drain(variant, players, conns, inbox)
        /\ InRange(players')
    /\ conns' = SeenConnected(conns)
    /\ superseded' = Supersedes(inbox)
    /\ inbox' = <<>>
    /\ UNCHANGED <<sceneVars, variant, nextEnt, sent>>
    /\ UNCHANGED clientVars

\* One server frame: the received messages are handled (PreUpdate), then the
\* Update systems run; read_connected's commands apply after apply_movement.
ServerFrame ==
    /\ \E dt \in Deltas :
        /\ players' =
             IF variant = "crates"
             THEN ReadConnected(ApplyMovement(Drain(variant, players, conns, inbox), dt), conns)
             ELSE Drain(variant, players, conns, inbox)
        /\ InRange(players')
    /\ conns' = SeenConnected(conns)
    /\ superseded' = Supersedes(inbox)
    /\ inbox' = <<>>
    /\ UNCHANGED <<sceneVars, variant, nextEnt, sent>>
    /\ UNCHANGED clientVars

\* Another client's message reaches the server.
SendOther(e, v) ==
    /\ e \in DOMAIN conns
    /\ e # me
    /\ conns[e].nid # NoId
    /\ sent < MaxMsgs
    /\ inbox' = Append(inbox, [from |-> e, val |-> v])
    /\ sent' = sent + 1
    /\ UNCHANGED <<sceneVars, variant, nextEnt, conns, players, superseded>>
    /\ UNCHANGED clientVars

\* ------------------------------------------------------------- client
\* The replication layer brings the client's mirror up to the server's
\* Player entities: new ones appear with Added<Player> set, despawned ones
\* go, and a component the server changed since the last update is replaced.
Mirror(rep, pl) ==
    [e \in DOMAIN pl |->
        IF e \in DOMAIN rep
        THEN [rep[e] EXCEPT !.srv = pl[e].pos,
                            !.pos = IF pl[e].pos # rep[e].srv THEN pl[e].pos ELSE @]
        ELSE [id |-> pl[e].id, pos |-> pl[e].pos, srv |-> pl[e].pos,
              added |-> TRUE, local |-> FALSE, remote |-> FALSE]]

\* The entities whose Player component the update inserts or replaces.
Written(rep, pl) ==
    {e \in DOMAIN pl : e \notin DOMAIN rep \/ pl[e].pos # rep[e].srv}

\* Changed<Player> is read by src/main.rs client_update_visual_positions
\* alone; the crates client has no system that reads it.
Replicate ==
    /\ cstate = "connected"
    /\ replica' = Mirror(replica, players)
    /\ changed' = IF variant = "mono"
                  THEN (changed \cap DOMAIN players) \cup Written(replica, players)
                  ELSE changed
    /\ UNCHANGED <<sceneVars, variant, nextEnt, conns, players, inbox, superseded, sent,
                   cstate, me, connEvent, clientId, inputActive, visuals>>

\* crates/client read_connected: the command that inserts MyClientId applies
\* at the end of the schedule, after handle_new_players has run.
ReadConnectedClient(cid, ev) == IF ev # NoId THEN ev ELSE cid

\* Mutant: every new Player is taken for the local one.
HandleNewPlayersAllLocal(rep, cid) ==
    IF cid = NoId THEN rep
    ELSE [e \in DOMAIN rep |->
            IF rep[e].added THEN [rep[e] EXCEPT !.local = TRUE] ELSE rep[e]]

\* Mutant: the marker is recomputed on every frame from the new Players.
HandleNewPlayersRemark(rep, cid) ==
    IF cid = NoId THEN rep
    ELSE [e \in DOMAIN rep |->
            IF rep[e].added /\ rep[e].id # cid
            THEN [rep[e] EXCEPT !.remote = TRUE]
            ELSE [rep[e] EXCEPT !.local = rep[e].added /\ rep[e].id = cid]]

\* crates/client handle_new_players, over the Added<Player> entities.
HandleNewPlayers(rep, cid) ==
    IF cid = NoId THEN rep
    ELSE [e \in DOMAIN rep |->
            IF rep[e].added
            THEN IF rep[e].id = cid
                 THEN [rep[e] EXCEPT !.local = TRUE]
                 ELSE [rep[e] EXCEPT !.remote = TRUE]
            ELSE rep[e]]

\* src/main.rs mark_local_player, over (Added<Player>, Without<LocalPlayer>).
MarkLocalPlayer(rep, cid) ==
    IF cid = NoId THEN rep
    ELSE [e \in DOMAIN rep |->
            IF rep[e].added /\ ~rep[e].local /\ rep[e].id = cid
            THEN [rep[e] EXCEPT !.local = TRUE]
            ELSE rep[e]]

\* Once the system has run, its Added<Player> filter matches no entity it
\* has seen, whether or not it looked at its query.
SystemRan(rep) == [e \in DOMAIN rep |-> [rep[e] EXCEPT !.added = FALSE]]

\* The orders in which a query, or the collection of the connection ids,
\* may visit the elements of S.
RECURSIVE Orders(_)
Orders(S) ==
    IF S = {} THEN {<<>>}
    ELSE UNION {{<<c>> \o t : t \in Orders(S \ {c})} : c \in S}

\* The first VisualPlayer, in query order, with that player_id; 0 if none.
FindVisual(vis, id) ==
    LET idx == {i \in 1..Len(vis) : vis[i].player_id = id}
    IN IF idx = {} THEN 0 ELSE CHOOSE i \in idx : \A j \in idx : i <= j

\* Mutant: the Player's position is added to the visual's translation.
UpdateVisualAdding(vis, new, p) ==
    LET i == FindVisual(vis, p.id)
    IN IF i # 0
       THEN [vis |-> [vis EXCEPT ![i].pos = VAdd(@, p.pos)], new |-> new]
       ELSE [vis |-> vis, new |-> Append(new, [player_id |-> p.id, pos |-> p.pos])]

\* The body of the loop for one changed Player: the visual found is moved
\* to the Player's position; if none is found one is spawned, by a command.
UpdateVisual(vis, new, p) ==
    LET i == FindVisual(vis, p.id)
    IN IF i # 0
       THEN [vis |-> [vis EXCEPT ![i].pos = p.pos], new |-> new]
       ELSE [vis |-> vis, new |-> Append(new, [player_id |-> p.id, pos |-> p.pos])]

\* client_update_visual_positions over the changed Players ps; the spawn
\* commands apply when the system has run.
RECURSIVE ClientUpdateVisualPositions(_, _, _)
ClientUpdateVisualPositions(vis, new, ps) ==
    IF ps = <<>> THEN vis \o new
    ELSE LET r == UpdateVisual(vis, new, Head(ps))
         IN ClientUpdateVisualPositions(r.vis, r.new, Tail(ps))

\* One client frame: the Update systems.  crates/client: read_connected
\* and handle_new_players.  src/main.rs: mark_local_player and
\* client_update_visual_positions, which sees every Player changed since
\* its last run, in the order of its query.
ClientFrame ==
    /\ IF variant = "crates"
       THEN /\ replica' = SystemRan(HandleNewPlayers(replica, clientId))
            /\ clientId' = ReadConnectedClient(clientId, connEvent)
            /\ connEvent' = NoId
            /\ UNCHANGED <<changed, visuals>>
       ELSE /\ replica' = SystemRan(MarkLocalPlayer(replica, clientId))
            /\ \E order \in Orders(changed) :
                 visuals' = ClientUpdateVisualPositions(visuals, <<>>,
                                [k \in 1..Len(order) |-> replica[order[k]]])
            /\ changed' = {}
            /\ UNCHANGED <<clientId, connEvent>>
    /\ UNCHANGED <<sceneVars, variant, nextEnt, conns, players, inbox, superseded, sent,
                   cstate, me, inputActive>>

LocalPlayers(rep) == {e \in DOMAIN rep : rep[e].local}

InsertAt(box, i, m) == SubSeq(box, 1, i) \o <<m>> \o SubSeq(box, i + 1, Len(box))

\* The unreliable channel: the message is lost, or reaches the server's
\* buffer at any place among those waiting there.
Unreliable(box, m) == {box} \cup {InsertAt(box, i, m) : i \in 0..Len(box)}

\* crates/client on_input / on_input_ended: client_trigger of the action's
\* value.  The PlayerMovement action lives in the actions! context inserted
\* with LocalPlayer, so it fires only while such an entity exists.
SendIntent(v) ==
    /\ sent < MaxMsgs
    /\ sent' = sent + 1
    /\ IF cstate = "connected"
       THEN inbox' \in Unreliable(inbox, [from |-> me, val |-> v])
       ELSE inbox' = inbox

\* Mutant: the input context does not depend on a LocalPlayer entity.
OnInputAnyEntity(v) ==
    /\ variant = "crates"
    /\ v # ZeroVec
    /\ SendIntent(v)
    /\ inputActive' = TRUE
    /\ UNCHANGED <<sceneVars, variant, nextEnt, conns, players, superseded,
                   cstate, me, connEvent, clientId, replica, changed, visuals>>

OnInput(v) ==
    /\ variant = "crates"
    /\ LocalPlayers(replica) # {}
    /\ v # ZeroVec
    /\ SendIntent(v)
    /\ inputActive' = TRUE
    /\ UNCHANGED <<sceneVars, variant, nextEnt, conns, players, superseded,
                   cstate, me, connEvent, clientId, replica, changed, visuals>>

OnInputEnded ==
    /\ variant = "crates"
    /\ LocalPlayers(replica) # {}
    /\ inputActive
    /\ SendIntent(ZeroVec)
    /\ inputActive' = FALSE
    /\ UNCHANGED <<sceneVars, variant, nextEnt, conns, players, superseded,
                   cstate, me, connEvent, clientId, replica, changed, visuals>>

\* src/main.rs client_handle_movement: move the single LocalPlayer and
\* report its position on the ordered channel.  The step is
\* normalize_or_zero() * MOVE_SPEED * delta_secs, rounded to the position's
\* resolution of 1/TickHz of a world unit.
MovePlayer(rep, e, v, dt) ==
    LET n == NormalizeOrZero(v)
        movement_delta == <<RoundDiv(n[1] * MoveSpeed * dt, NormUnit),
                            RoundDiv(n[2] * MoveSpeed * dt, NormUnit)>>
    IN [rep EXCEPT ![e].pos = VAdd(@, movement_delta)]

\* With no LocalPlayer or more than one, single_mut() fails and the
\* observer returns before it moves or sends anything.
ClientHandleMovement(v, dt) ==
    /\ variant = "mono"
    /\ LocalPlayers(replica) # {}
    /\ sent < MaxMsgs
    /\ IF Cardinality(LocalPlayers(replica)) = 1
       THEN LET e == CHOOSE x \in LocalPlayers(replica) : TRUE
                rep == MovePlayer(replica, e, v, dt)
            IN /\ replica' = rep
               /\ changed' = changed \cup {e}
               /\ inbox' = IF cstate = "connected"
                           THEN Append(inbox, [from |-> me, val |-> rep[e].pos])
                           ELSE inbox
               /\ sent' = sent + 1
       ELSE UNCHANGED <<replica, changed, inbox, sent>>
    /\ UNCHANGED <<sceneVars, variant, nextEnt, conns, players, superseded,
                   cstate, me, connEvent, clientId, inputActive, visuals>>

Next ==
    \/ \E nid \in NetIds \cup {NoId}, isMe \in BOOLEAN : Authorize(nid, isMe)
    \/ \E e \in DOMAIN conns : Close(e)
    \/ ServerFrame
    \/ \E e \in DOMAIN conns, v \in OtherDirs : SendOther(e, v)
    \/ Replicate
    \/ ClientFrame
    \/ \E v \in Dirs : OnInput(v)
    \/ OnInputEnded
    \/ \E v \in MoveInputs, dt \in Deltas : ClientHandleMovement(v, dt)

Spec == Init /\ [][Next]_vars

\* Fairness: the client's frame loop keeps running, and the replication
\* layer keeps delivering to a connected client.
FairSpec == Spec /\ WF_vars(ClientFrame) /\ WF_vars(Replicate)

\* ---------------------------------------------------------- timed run
\* The crates programs from the moment the client is connected, knows its
\* id and has its Player, at the origin, marked LocalPlayer.
RunInit ==
    /\ variant = "crates"
    /\ nextEnt = 2
    /\ \E nid \in NetIds :
        /\ conns = (1 :> [nid |-> nid, fresh |-> FALSE])
        /\ players = (1 :> [id |-> nid, pos |-> ZeroVec, input |-> ZeroVec])
        /\ clientId = nid
        /\ replica = (1 :> [id |-> nid, pos |-> ZeroVec, srv |-> ZeroVec,
                            added |-> FALSE, local |-> TRUE, remote |-> FALSE])
    /\ inbox = <<>>
    /\ superseded = {}
    /\ cstate = "connected"
    /\ me = 1
    /\ connEvent = NoId
    /\ inputActive = FALSE
    /\ sent = 0
    /\ changed = {}
    /\ visuals = <<>>
    /\ applied = <<>>
    /\ snaps = <<>>
    /\ srvShut = ServerUp
    /\ cliShut = ClientUp({})

\* The ticks of the run that did not last 1/TickHz s.
Late(seq) == {i \in 1..Len(seq) : seq[i].delta # 1}

\* One server frame.  run_loop(1.0 / 64.0) paces the frames at 1/TickHz s
\* and time.delta_secs() is the time measured since the last frame, so a
\* frame that overran lasts longer; the input the Player is moved by and
\* the measured delta are recorded.
RunTick ==
    /\ Len(applied) < MaxRunTicks
    /\ \E dt \in Deltas :
        /\ dt # 1 => Cardinality(Late(applied)) < MaxLate
        /\ players' = ReadConnected(ApplyMovement(Drain(variant, players, conns, inbox), dt),
                                    conns)
        /\ applied' = Append(applied, [input |-> players'[me].input, delta |-> dt])
    /\ conns' = SeenConnected(conns)
    /\ superseded' = Supersedes(inbox)
    /\ inbox' = <<>>
    /\ UNCHANGED <<variant, nextEnt, sent, srvShut, cliShut, snaps>>
    /\ UNCHANGED clientVars

RunNext ==
    \/ RunTick
    \/ \E v \in Dirs : OnInput(v)
    \/ OnInputEnded

RunSpec == RunInit /\ [][RunNext]_vars

\* ------------------------------------------------------------ shutdown
\* The exit path of the server process and of the client process, each with
\* its own frame loop.  An AppExit written during a frame is read by
\* disconnect_observer in Last of that frame, and App::run returns after it.

\* crates/server check_shutdown: at most one interrupt is taken per frame.
CheckShutdown(s) ==
    IF s.signals > 0
    THEN [s EXCEPT !.signals = @ - 1, !.exits = @ + 1]
    ELSE s

\* Mutant: the endpoint is left as it is.
ShutdownServerNoStop(s) == s

\* stop_endpoint; on an endpoint already stopped it errs, which is logged.
ShutdownServer(s) == [s EXCEPT !.endpoint = "stopped"]

\* The server's disconnect_observer: once per AppExit read.
RECURSIVE DisconnectObserver(_, _)
DisconnectObserver(s, n) ==
    IF n = 0 THEN s ELSE DisconnectObserver(ShutdownServer(s), n - 1)

\* The runner leaves the loop after a frame in which AppExit was written.
AfterFrame(s) ==
    IF s.exits > 0
    THEN [s EXCEPT !.exits = 0, !.raised = TRUE, !.running = FALSE]
    ELSE s

\* The ctrlc handler of main: tx.send(()).
Interrupt ==
    /\ variant = "crates"
    /\ srvShut.running
    /\ srvShut.signals < MaxSignals
    /\ srvShut' = [srvShut EXCEPT !.signals = @ + 1]
    /\ UNCHANGED <<vars_program, applied, cliShut, snaps>>

\* An AppExit written by the application itself (src/main.rs server).
ServerExitRequest ==
    /\ variant = "mono"
    /\ srvShut.running
    /\ srvShut.exits < MaxExits
    /\ srvShut' = [srvShut EXCEPT !.exits = @ + 1]
    /\ UNCHANGED <<vars_program, applied, cliShut, snaps>>

\* One frame of the server as far as the exit path goes.
ServerShutFrame ==
    /\ srvShut.running
    /\ LET s == IF variant = "crates" THEN CheckShutdown(srvShut) ELSE srvShut
       IN srvShut' = AfterFrame(DisconnectObserver(s, s.exits))
    /\ UNCHANGED <<vars_program, applied, cliShut, snaps>>

\* close_connection(id); fails tells whether it returns Err.
CloseConnection(c, id, fails) ==
    [c EXCEPT !.tried[id] = @ + 1,
              !.open = IF fails THEN @ ELSE @ \ {id},
              !.failed = IF fails THEN @ \cup {id} ELSE @]

\* Mutant: the first close that errs ends the loop.
RECURSIVE DisconnectClientAbort(_, _, _)
DisconnectClientAbort(c, ids, fail) ==
    IF ids = <<>> THEN c
    ELSE IF Head(ids) \in fail
         THEN CloseConnection(c, Head(ids), TRUE)
         ELSE DisconnectClientAbort(CloseConnection(c, Head(ids), FALSE), Tail(ids), fail)

\* The loop of the client's disconnect_observer / disconnect_client over the
\* collected ids; the closes of the ids in fail err.
RECURSIVE DisconnectClient(_, _, _)
DisconnectClient(c, ids, fail) ==
    IF ids = <<>> THEN c
    ELSE DisconnectClient(CloseConnection(c, Head(ids), Head(ids) \in fail),
                          Tail(ids), fail)

\* The client's disconnect_observer: for each AppExit read, the ids of
\* client.connections() are collected and the loop runs over them; the
\* outcomes, over the orders of the ids and the closes that err.
RECURSIVE DisconnectObserverClient(_, _)
DisconnectObserverClient(c, n) ==
    IF n = 0 THEN {c}
    ELSE LET once == {DisconnectClient(c, ids, fail) :
                        ids \in Orders(c.open), fail \in SUBSET c.open}
         IN UNION {DisconnectObserverClient(x, n - 1) : x \in once}

\* An application exit event on the client (the window was closed, the
\* terminal sent an interrupt); several may be written before a frame
\* reads them.
ClientExitRequest ==
    /\ cliShut.running
    /\ cliShut.exits < MaxExits
    /\ cliShut' = [cliShut EXCEPT !.exits = @ + 1]
    /\ UNCHANGED <<vars_program, applied, srvShut, snaps>>

\* One frame of the client as far as the exit path goes.
ClientShutFrame ==
    /\ cliShut.running
    /\ cliShut.exits > 0
    /\ \E c \in DisconnectObserverClient(cliShut, cliShut.exits) :
        cliShut' = [c EXCEPT !.exits = 0, !.running = FALSE]
    /\ UNCHANGED <<vars_program, applied, srvShut, snaps>>

ShutInit ==
    /\ variant \in {"crates", "mono"}
    /\ ProgramStart
    /\ applied = <<>>
    /\ snaps = <<>>
    /\ srvShut = ServerUp
    /\ \E open \in SUBSET ConnIds : cliShut = ClientUp(open)

ShutNext ==
    \/ Interrupt
    \/ ServerExitRequest
    \/ ServerShutFrame
    \/ ClientExitRequest
    \/ ClientShutFrame

ShutSpec == ShutInit /\ [][ShutNext]_vars

\* Fairness: both frame loops keep running while their app runs.
FairShutSpec == ShutSpec /\ WF_vars(ServerShutFrame) /\ WF_vars(ClientShutFrame)

\* ------------------------------------------------------------- visuals
\* src/main.rs on the client: client_update_visual_positions under the
\* sequences of Player snapshots the replication layer delivers.

\* The replication layer writes the Player of entity e: it inserts the
\* component on a new entity or replaces its value; writing the value it
\* already has marks it changed as well.  A Player keeps its id, and the
\* Players that carry one id hold one position, as those the server of
\* src/main.rs spawns for one identifier do.  The snapshot is recorded as
\* the player's last one; again tells that it repeats the one before it.
Snapshot(e, id, pos) ==
    /\ e \in DOMAIN replica => id = replica[e].id
    /\ \A x \in DOMAIN replica \ {e} : replica[x].id = id => replica[x].pos = pos
    /\ replica' = [x \in DOMAIN replica \cup {e} |->
                    IF x # e THEN replica[x]
                    ELSE IF e \in DOMAIN replica
                         THEN [replica[e] EXCEPT !.pos = pos, !.srv = pos]
                         ELSE [id |-> id, pos |-> pos, srv |-> pos,
                               added |-> TRUE, local |-> FALSE, remote |-> FALSE]]
    /\ changed' = changed \cup {e}
    /\ snaps' = [i \in DOMAIN snaps \cup {id} |->
                    IF i # id THEN snaps[i]
                    ELSE [pos |-> pos,
                          again |-> id \in DOMAIN snaps /\ snaps[id].pos = pos]]
    /\ UNCHANGED <<applied, srvShut, cliShut,
                   variant, nextEnt, conns, players, inbox, superseded, sent,
                   cstate, me, connEvent, clientId, inputActive, visuals>>

VisInit ==
    /\ variant = "mono"
    /\ ProgramStart
    /\ applied = <<>>
    /\ snaps = <<>>
    /\ srvShut = ServerUp
    /\ cliShut = ClientUp({})

VisNext ==
    \/ \E e \in ViewEnts, id \in NetIds, pos \in SnapPositions : Snapshot(e, id, pos)
    \/ ClientFrame

VisSpec == VisInit /\ [][VisNext]_vars

\* ------------------------------------------------------------- claims
\* The connection a Player entity was created for.
Owner(e) == IF e < 0 THEN 0 - e ELSE e

\* A step of ServerFrame; what is cheap to see of it comes first.
ServerFrameStep ==
    /\ sent' = sent
    /\ replica' = replica
    /\ DOMAIN conns' = DOMAIN conns
    /\ ServerFrame

\* The value of the last message of a batch from sender e, or dflt.
LastFrom(box, e, dflt) ==
    LET idx == {i \in 1..Len(box) : box[i].from = e}
    IN IF idx = {} THEN dflt
       ELSE box[CHOOSE i \in idx : \A j \in idx : j <= i].val

\* C1 (as claimed): no two Player entities on the server carry the same
\* network_id, also when an identifier is assigned again after its earlier
\* connection has closed.
C1_IdentityUniqueness ==
    \A a, b \in DOMAIN players : a # b => players[a].id # players[b].id

\* C2 (as claimed): every Player entity on the server belongs to a currently
\* active connection, in both programs.
C2_DisconnectCleanliness ==
    \A e \in DOMAIN players : Owner(e) \in DOMAIN conns

\* C3: a tick moves every player by the intent handled last for it in that
\* tick's batch (by its stored input when the batch holds none for it);
\* earlier intents of the batch contribute nothing.
C3_LastWriteWins ==
    [][(variant = "crates" /\ ServerFrameStep) =>
        \E dt \in Deltas : \A e \in DOMAIN players :
            players'[e].pos =
                VAdd(players[e].pos,
                     VScale(LastFrom(inbox, e, players[e].input), dt * Speed))]_vars

\* C3 witness: a tick has handled two different intents of one player and
\* moved it by the later one.
C3_Witness ==
    /\ variant = "crates"
    /\ \E e \in superseded \cap DOMAIN players :
        /\ players[e].input = <<1, 1>>
        /\ players[e].pos \in {VScale(<<1, 1>>, dt * Speed) : dt \in Deltas}

\* C4: on every tick every player moves by its stored direction times the
\* speed 100 times the tick delta, one delta and one speed for all players,
\* the direction taken as given; direction (1,0) at delta 1/64 s moves a
\* player by (1.5625, 0).
C4_PositionUpdateLaw ==
    [][(variant = "crates" /\ ServerFrameStep) =>
        \E dt \in Deltas : \A e \in DOMAIN players :
            LET d    == players'[e].input
                move == <<players'[e].pos[1] - players[e].pos[1],
                          players'[e].pos[2] - players[e].pos[2]>>
            IN /\ move = <<d[1] * 100 * dt, d[2] * 100 * dt>>
               /\ (d = <<1, 0>> /\ dt = 1) =>
                     /\ move[1] * 10000 = 15625 * TickHz
                     /\ move[2] = 0]_vars

\* C4 witness: a player with direction (1,1), not normalised, has been moved
\* by two ticks, and one with direction (1,0) by one tick of 1/64 s.
C4_Witness ==
    /\ variant = "crates"
    /\ \E e \in DOMAIN players :
        players[e].input = <<1, 1>> /\ players[e].pos = <<200, 200>>
    /\ \E e \in DOMAIN players :
        players[e].input = <<1, 0>> /\ players[e].pos = <<100, 0>>

\* C5 (as claimed): after the server has handled the position reports of a
\* batch, the Player whose id is a connected sender's network_id has the
\* position that sender reported last.
C5_ReportedPositionCopied ==
    [][(variant = "mono" /\ ServerFrameStep) =>
        \A c \in DOMAIN conns : \A p \in DOMAIN players' :
            (players'[p].id = conns[c].nid /\ \E i \in 1..Len(inbox) : inbox[i].from = c)
                => players'[p].pos = LastFrom(inbox, c, ZeroVec)]_vars

\* The modelled client's connection is up and the server holds its Player.
MyPlayerExists ==
    /\ cstate = "connected"
    /\ \E e \in DOMAIN players : Owner(e) = me /\ players[e].id = conns[me].nid

Identified == LocalPlayers(replica) # {}

\* C6 (as claimed): once the client is connected and the server has created
\* its Player, the client eventually marks an entity LocalPlayer (unless the
\* connection ends first), whatever the order of the two events.
C6_EventualIdentification ==
    MyPlayerExists ~> (Identified \/ cstate = "closed")

\* C7 (as claimed): at most one entity on the client carries LocalPlayer.
C7_LocalPlayerSingleton ==
    Cardinality(LocalPlayers(replica)) <= 1

\* C8: an entity marked LocalPlayer is a Player whose network_id is the id
\* the client was assigned; the remote treatment goes only to Players with
\* another id, and no entity gets both.
C8_LocalPlayerCorrect ==
    \A e \in DOMAIN replica :
        /\ replica[e].local =>
              /\ clientId # NoId
              /\ replica[e].id = clientId
              /\ cstate = "connected" => clientId = conns[me].nid
        /\ replica[e].remote => (replica[e].id # clientId /\ ~replica[e].local)

\* C8 witness: the client shows its own Player marked and another Player
\* with the remote treatment.
C8_Witness ==
    /\ \E e \in DOMAIN replica : replica[e].local
    /\ \E e \in DOMAIN replica : replica[e].remote

CountFrom(box, e) == Cardinality({i \in 1..Len(box) : box[i].from = e})

\* C9: while the client does not know its id, or no entity is marked, no
\* entity is marked LocalPlayer and no step sends a message of this client
\* or records an input.
C9_UnidentifiedSilent ==
    /\ [](clientId = NoId => ~Identified)
    /\ [][~Identified =>
            /\ CountFrom(inbox', me) <= CountFrom(inbox, me)
            /\ sent' > sent => (inbox' # inbox /\ inbox'[Len(inbox')].from # me)
            /\ inputActive' = inputActive]_vars

\* C9 witness: the client is connected and its Player is in its mirror, yet
\* it does not know its id and nothing is marked.
C9_Witness ==
    /\ cstate = "connected"
    /\ clientId = NoId
    /\ \E e \in DOMAIN replica : replica[e].id = conns[me].nid
    /\ ~Identified

\* C10: an entity marked LocalPlayer keeps the marker in every step after
\* which the connection is still up.
C10_IdentifiedIsTerminal ==
    [][cstate' = "connected" =>
        \A e \in LocalPlayers(replica) :
            e \in DOMAIN replica' /\ replica'[e].local]_vars

\* C10 witness: the marked entity has lived through later frames: its
\* mirrored position has moved and another Player has appeared beside it.
C10_Witness ==
    /\ cstate = "connected"
    /\ \E e \in LocalPlayers(replica) :
        /\ replica[e].pos # ZeroVec
        /\ ~replica[e].added
        /\ \E o \in DOMAIN replica : o # e /\ ~replica[o].added

\* C11 (as claimed): a step of the client changes the position of a Player
\* in its mirror only by taking over the position the server holds for it;
\* no client system writes a Player's position.
C11_SingleWriter ==
    [][\A e \in DOMAIN replica \cap DOMAIN replica' :
          replica'[e].pos # replica[e].pos =>
             /\ e \in DOMAIN players
             /\ replica' = Mirror(replica, players)
             /\ replica'[e].pos = players[e].pos]_vars

\* The messages of a batch all come from senders the server holds no Player
\* for: the connection is gone, or it carries no Player.
OnlyFromPlayerless(box, pl) == \A i \in 1..Len(box) : box[i].from \notin DOMAIN pl

\* C12: a tick whose batch holds only messages of senders without a Player
\* leaves the server as a tick with an empty batch does: no Player appears
\* or goes because of them, no input and no identifier changes, and every
\* position moves by its own stored input alone (not at all in src/main.rs).
C12_SilentDrop ==
    [][(ServerFrameStep /\ inbox # <<>> /\ OnlyFromPlayerless(inbox, players)) =>
        /\ DOMAIN players \subseteq DOMAIN players'
        /\ DOMAIN players' \ DOMAIN players \subseteq NewlyAuthorized(conns)
        /\ \E dt \in Deltas : \A e \in DOMAIN players :
            /\ players'[e].id = players[e].id
            /\ players'[e].input = players[e].input
            /\ players'[e].pos =
                 IF variant = "crates"
                 THEN VAdd(players[e].pos, VScale(players[e].input, dt * Speed))
                 ELSE players[e].pos]_vars

\* C12 witness: a message of a sender without a Player is waiting at the
\* server beside a Player that is moving.
C12_Witness ==
    /\ inbox # <<>>
    /\ OnlyFromPlayerless(inbox, players)
    /\ \E e \in DOMAIN players : players[e].input # ZeroVec /\ players[e].pos # ZeroVec

\* What read_connected and new_client give a new Player of identifier nid.
FreshPlayer(nid) == [id |-> nid, pos |-> ZeroVec, input |-> ZeroVec]

\* C13: the frame that sees a newly authorised connection with an identifier
\* (the authorisation itself in src/main.rs) adds exactly one Player, with
\* that identifier, at the origin and with zero input, and changes no other;
\* a Player at the origin with zero input for which a tick handles no
\* message is there after the tick; before any connection there is no Player.
C13_PlayerCreation ==
    /\ [](nextEnt = 1 => players = <<>>)
    /\ [][ServerFrameStep =>
            /\ variant = "crates" =>
                  /\ DOMAIN players' = DOMAIN players \cup NewlyAuthorized(conns)
                  /\ \A e \in NewlyAuthorized(conns) :
                        e \notin DOMAIN players /\ players'[e] = FreshPlayer(conns[e].nid)
            /\ \A e \in DOMAIN players :
                  (players[e] = FreshPlayer(players[e].id) /\ CountFrom(inbox, e) = 0)
                      => (e \in DOMAIN players' /\ players'[e] = players[e])]_vars
    /\ [][(variant = "mono" /\ nextEnt' # nextEnt /\ conns'[nextEnt].nid # NoId) =>
            \E p \in DOMAIN players' \ DOMAIN players :
                /\ DOMAIN players' = DOMAIN players \cup {p}
                /\ players'[p] = FreshPlayer(conns'[nextEnt].nid)
                /\ \A q \in DOMAIN players : players'[q] = players[q]]_vars

\* C13 witness: a Player that has received no intent is at the origin with
\* its connection's identifier while ticks have moved another Player.
C13_Witness ==
    /\ variant = "crates"
    /\ \E e \in DOMAIN players :
        /\ players[e] = FreshPlayer(conns[e].nid)
        /\ \E o \in DOMAIN players : players[o].pos # ZeroVec

\* The entity that holds the Player of connection e.
PlayerOf(e) == IF variant = "crates" THEN e ELSE SpawnedFor(e)

\* C14: a connection authorised without an identifier never has a Player,
\* and the step that authorises it changes no Player; every connection with
\* an identifier that the server has seen has its Player all the same, also
\* when it was authorised after one without an identifier.
C14_NoIdentifierNoPlayer ==
    /\ [](\A e \in DOMAIN conns :
            IF conns[e].nid = NoId
            THEN e \notin DOMAIN players /\ SpawnedFor(e) \notin DOMAIN players
            ELSE ~conns[e].fresh =>
                    /\ PlayerOf(e) \in DOMAIN players
                    /\ players[PlayerOf(e)].id = conns[e].nid)
    /\ [][(nextEnt' # nextEnt /\ conns'[nextEnt].nid = NoId) => players' = players]_vars

\* C14 witness: a connection without an identifier was authorised, and one
\* authorised after it has its Player.
C14_Witness ==
    \E e, f \in DOMAIN conns :
        /\ e < f
        /\ conns[e].nid = NoId
        /\ ~conns[e].fresh
        /\ PlayerOf(f) \in DOMAIN players

\* C19: a tick leaves no received intent unhandled, each player's input
\* after the tick is the last intent received for it since the previous
\* tick, the tick's move is made with that input, not with the one stored
\* before; and what replication hands the client is the position the server
\* holds after the tick.
C19_TickOrdering ==
    /\ [][(variant = "crates" /\ ServerFrameStep) =>
            /\ inbox' = <<>>
            /\ \E dt \in Deltas : \A e \in DOMAIN players :
                /\ players'[e].input = LastFrom(inbox, e, players[e].input)
                /\ players'[e].pos =
                     VAdd(players[e].pos, VScale(players'[e].input, dt * Speed))]_vars
    /\ [][Replicate =>
            \A e \in DOMAIN replica' :
                replica'[e].srv = players[e].pos /\ players' = players]_vars

\* C19 witness: the tick that handled a player's first intent has moved it
\* by that intent, and the client has been handed the moved position.
C19_Witness ==
    /\ variant = "crates"
    /\ \E e \in DOMAIN players \cap DOMAIN replica :
        /\ players[e].input # ZeroVec
        /\ players[e].pos \in {VScale(players[e].input, dt * Speed) : dt \in Deltas}
        /\ replica[e].srv = players[e].pos

\* C20 (as claimed): once the client gives no input and none of its intents
\* is on its way, the server's stored input for its Player is zero, so that
\* the ticks that follow leave the position where it is; also when an
\* intent, the input-ended one in particular, was lost or overtaken.
C20_LossHarmless ==
    (/\ variant = "crates"
     /\ cstate = "connected"
     /\ me \in DOMAIN players
     /\ ~inputActive
     /\ CountFrom(inbox, me) = 0) => players[me].input = ZeroVec

\* The recorded inputs are: zero for the first a ticks, v for the n ticks
\* that follow, each of them lasting 1/TickHz s, zero for all later ones.
InEffectFor(seq, a, v, n) ==
    /\ Len(seq) >= a + n
    /\ \A i \in 1..Len(seq) :
        IF i > a /\ i <= a + n
        THEN seq[i].input = v /\ seq[i].delta = 1
        ELSE seq[i].input = ZeroVec

\* C15: a Player created at the origin that the ticks have moved by the
\* intent (1,0) for exactly 10 consecutive ticks of 1/64 s each and by
\* zero input otherwise is at x = 15.625, y = 0, on the 10th of these ticks
\* and on every later one, whatever the later ticks last.
C15_EndToEndMovement ==
    \A a \in 0..Len(applied) :
        InEffectFor(applied, a, <<1, 0>>, 10) =>
            /\ players[me].pos[1] * 1000 = 15625 * TickHz
            /\ players[me].pos[2] = 0

\* C15 witness: the intent (1,0) was in effect for exactly 10 ticks of
\* 1/64 s, the input-ended intent arrived, and ticks have run since, one
\* of them longer than 1/64 s.
C15_Witness ==
    /\ \E a \in {0, 1} : InEffectFor(applied, a, <<1, 0>>, 10)
    /\ Len(applied) = 12
    /\ applied[12].delta = 2
    /\ players[me].input = ZeroVec
    /\ players[me].pos = <<1000, 0>>
    /\ ~inputActive

\* C16: the first server frame after an interrupt was delivered, or an exit
\* was requested, raises the exit event and stops the endpoint, and with the
\* frame loop running that frame comes; the client frame that reads an exit
\* event attempts a close on every connection open at that moment.
C16_ShutdownOnExit ==
    /\ [][(ServerShutFrame /\ (srvShut.signals > 0 \/ srvShut.exits > 0)) =>
            (srvShut'.raised /\ srvShut'.endpoint = "stopped")]_vars
    /\ (srvShut.signals > 0 \/ srvShut.exits > 0) ~> (srvShut.endpoint = "stopped")
    /\ [][ClientShutFrame =>
            \A c \in cliShut.open : cliShut'.tried[c] > cliShut.tried[c]]_vars

\* C16 witness: the server has raised the exit event for the first of two
\* interrupts and stopped its endpoint, and the client has attempted a close
\* on each of three open connections.
C16_Witness ==
    /\ srvShut.raised
    /\ srvShut.endpoint = "stopped"
    /\ srvShut.signals = 1
    /\ ~cliShut.running
    /\ \A c \in {1, 2, 3} : cliShut.tried[c] = 1

VisualsOf(id) == {i \in 1..Len(visuals) : visuals[i].player_id = id}

\* The replicated Players of player id that the system has yet to see.
Unseen(id) == {e \in changed : e \in DOMAIN replica /\ replica[e].id = id}

\* C18: once client_update_visual_positions has seen the last snapshot of a
\* player, the player has a visual and every visual of the player is at the
\* position of that snapshot, however many snapshots came before it and
\* however often each was delivered.
C18_LastSnapshotShown ==
    \A id \in DOMAIN snaps :
        Unseen(id) = {} =>
            /\ VisualsOf(id) # {}
            /\ \A i \in VisualsOf(id) : visuals[i].pos = snaps[id].pos

\* C18 witness: the system has seen every snapshot; the last snapshot of
\* one player repeated the one before it, away from the origin, the last
\* snapshot of another player moved it elsewhere, and each player's visual
\* is at the position of its last snapshot.
C18_Witness ==
    /\ changed = {}
    /\ \E id, other \in DOMAIN snaps :
        /\ snaps[id].again
        /\ snaps[id].pos # ZeroVec
        /\ ~snaps[other].again
        /\ snaps[other].pos \notin {ZeroVec, snaps[id].pos}
        /\ \A p \in {id, other} :
            /\ VisualsOf(p) # {}
            /\ \A i \in VisualsOf(p) : visuals[i].pos = snaps[p].pos

\* C21: handling an intent of a sender writes the input of the sender's own
\* Player and nothing else: no other input, no position, no identifier, no
\* entity; a tick leaves the input of a player without a message in its
\* batch as it was; and a position changes in a server tick only.
C21_IntentIsolation ==
    /\ [](variant = "crates" =>
            \A i \in 1..Len(inbox) :
                LET r == OnClientPosition(players, inbox[i])
                IN /\ DOMAIN r = DOMAIN players
                   /\ \A e \in DOMAIN players :
                        /\ r[e].pos = players[e].pos
                        /\ r[e].id = players[e].id
                        /\ e # inbox[i].from => r[e].input = players[e].input)
    /\ [][(variant = "crates" /\ ServerFrameStep) =>
            \A e \in DOMAIN players :
                CountFrom(inbox, e) = 0 => players'[e].input = players[e].input]_vars
    /\ [][\A e \in DOMAIN players \cap DOMAIN players' :
            players'[e].pos # players[e].pos => ServerFrameStep]_vars

\* C21 witness: an intent of one client waits at the server while another
\* client's Player is moving with a different input.
C21_Witness ==
    /\ variant = "crates"
    /\ \E i \in 1..Len(inbox), b \in DOMAIN players :
        /\ inbox[i].from \in DOMAIN players
        /\ b # inbox[i].from
        /\ players[b].input # ZeroVec
        /\ players[b].input # inbox[i].val
        /\ players[b].pos # ZeroVec

\* C22 (as claimed): there is at most one VisualPlayer per player_id, also
\* when two replicated Player entities carry the same id.
C22_OneVisualPerPlayer ==
    \A id \in NetIds : Cardinality(VisualsOf(id)) <= 1

==========================================================================
